---- MODULE Spec2Model ----
(***************************************************************************)
(* TensorflowTensorHandler.handle_batch_request                            *)
(* (src/bentoml/handlers/tensorflow_tensor_handler.py) as a state machine: *)
(* one batch call that decodes every request, merges the instances,        *)
(* builds one tensor, invokes func and demultiplexes the result.           *)
(***************************************************************************)
EXTENDS Integers, Sequences, FiniteSets, TLC

\* ---------------------------------------------------------------- bounds
\* Largest number of requests in one batch.
MaxRequests == 2
\* Longest sequence in a value handed to the nested value decoder.
MaxLen == 2

\* ------------------------------------------------------- python values
\* JSON / python values are tagged records.
None == [t |-> "None"]
Absent == [t |-> "absent"]            \* key missing from a mapping
Num(n) == [t |-> "num", n |-> n]
List(xs) == [t |-> "list", xs |-> xs]
B64(s) == [t |-> "b64", s |-> s]      \* the mapping {"b64": s}
Bytes(s) == [t |-> "bytes", s |-> s]
Dict(n) == [t |-> "dict", size |-> n] \* a mapping with n keys, none of them b64
Map(kv) == [t |-> "map", kv |-> kv]   \* a mapping given by its keys and values

\* python truthiness of a value
Truthy(v) ==
    CASE v.t = "None" -> FALSE
      [] v.t = "absent" -> FALSE
      [] v.t = "num" -> v.n # 0
      [] v.t = "list" -> Len(v.xs) > 0
      [] v.t = "dict" -> v.size > 0
      [] v.t = "map" -> DOMAIN v.kv # {}
      [] OTHER -> TRUE

\* dict.get(key): the value, or None when the key is missing
Get(v) == IF v.t = "absent" THEN None ELSE v

\* ------------------------------------------------------------ requests
\* The instance lists a payload may carry (instances is a JSON array, as
\* request_schema declares it).
InstanceLists ==
    { List(<< >>),
      List(<<Num(1), Num(2)>>),
      List(<<List(<<Num(1), Num(2)>>), List(<<Num(3), Num(4)>>)>>),
      List(<<B64("ok")>>),
      List(<<B64("bad")>>) }

\* What json.loads makes of a request body: an exception, or a value.
\*   exc = "JSONDecodeError"     body is not JSON
\*   exc = "UnicodeDecodeError"  body bytes are not valid text
\*   exc = "none", dict = FALSE  body is JSON but not a mapping
\*   exc = "none", dict = TRUE   a mapping with the two fields below
Body(exc, dict, instances, inputs) ==
    [exc |-> exc, dict |-> dict, instances |-> instances, inputs |-> inputs]

Bodies ==
    { Body("JSONDecodeError", FALSE, Absent, Absent),
      Body("UnicodeDecodeError", FALSE, Absent, Absent),
      Body("none", FALSE, Absent, Absent) }
    \cup { Body("none", TRUE, ins, Absent) : ins \in InstanceLists \cup {Absent, None} }
    \cup { Body("none", TRUE, Absent, Dict(0)),
           Body("none", TRUE, Absent, Dict(1)),
           Body("none", TRUE, None, Dict(1)),
           Body("none", TRUE, List(<<Num(1), Num(2)>>), Dict(1)) }

\* The value of the batch override header of a request.
Headers == {"true", "false", "absent"}

SimpleRequest(data, header) == [data |-> data, header |-> header]

Requests == { SimpleRequest(d, h) : d \in Bodies, h \in Headers }

\* ----------------------------------------------------------- responses
HTTP_BAD == 400
HTTP_NOT_IMPLEMENTED == 501
HTTP_INTERNAL == 500

SimpleResponse(status, data, msg) == [status |-> status, data |-> data, msg |-> msg]

bad_resp == SimpleResponse(HTTP_BAD, None, "input format error")

\* ------------------------------------------------- nested value decoder
\* The converter taking every mapping for a marker.
tf_b64_2_bytes_any_mapping(v) ==
    IF v.t \in {"b64", "map"} THEN Bytes("") ELSE v

\* tf_b64_2_bytes on one node: a b64 marker becomes its bytes, anything else
\* is returned as it is.
tf_b64_2_bytes(v) == IF v.t = "b64" THEN Bytes(v.s) ELSE v

\* NestedConverter: the converter applied through every level of nesting,
\* mappings key by key and sequences entry by entry.
RECURSIVE NestedConverter(_)
NestedConverter(v) ==
    LET converted == tf_b64_2_bytes(v)
    IN  IF converted # v THEN converted
        ELSE IF v.t = "list"
        THEN List([k \in 1..Len(v.xs) |-> NestedConverter(v.xs[k])])
        ELSE IF v.t = "map"
        THEN Map([key \in DOMAIN v.kv |-> NestedConverter(v.kv[key])])
        ELSE v

\* base64 decoding raises binascii.Error on a marker whose text is not base64.
RECURSIVE Undecodable(_)
Undecodable(v) ==
    CASE v.t = "b64" -> v.s = "bad"
      [] v.t = "list" -> \E k \in 1..Len(v.xs) : Undecodable(v.xs[k])
      [] v.t = "map" -> \E key \in DOMAIN v.kv : Undecodable(v.kv[key])
      [] OTHER -> FALSE

decode_b64_if_needed(v) ==
    IF Undecodable(v)
    THEN [exc |-> "binascii.Error", value |-> None]
    ELSE [exc |-> "none", value |-> NestedConverter(v)]

\* ------------------------------------------------ the decode loop body
\* The flag taken from the configuration alone.
BatchFlagConfigOnly(request, cfg) == cfg

\* batch_flags[i]: the header, or the configured default, compared to "true".
BatchFlag(request, cfg) ==
    LET dflt == IF cfg THEN "true" ELSE "false"
        h == IF request.header = "absent" THEN dflt ELSE request.header
    IN  h = "true"

\* The try block with the inputs test as an if of its own, not an elif.
TryBodyIfInputs(request) ==
    LET parsed_json == request.data
        nothing == [exc |-> "none", instances |-> None, response |-> None]
        not_implemented == SimpleResponse(HTTP_NOT_IMPLEMENTED, None,
                                          "Column format 'inputs' not implemented")
    IN  IF parsed_json.exc # "none"
        THEN [nothing EXCEPT !.exc = parsed_json.exc]
        ELSE IF ~parsed_json.dict
        THEN [nothing EXCEPT !.exc = "AttributeError"]
        ELSE LET d == IF Get(parsed_json.instances) # None
                      THEN decode_b64_if_needed(Get(parsed_json.instances))
                      ELSE [exc |-> "none", value |-> None]
             IN  IF d.exc # "none"
                 THEN [nothing EXCEPT !.exc = d.exc]
                 ELSE [nothing EXCEPT
                         !.instances = d.value,
                         !.response = IF Truthy(Get(parsed_json.inputs))
                                      THEN not_implemented ELSE None]

\* The try block with instances tested for truth, not against None.
TryBodyIfTruthy(request) ==
    LET parsed_json == request.data
        nothing == [exc |-> "none", instances |-> None, response |-> None]
    IN  IF parsed_json.exc # "none"
        THEN [nothing EXCEPT !.exc = parsed_json.exc]
        ELSE IF ~parsed_json.dict
        THEN [nothing EXCEPT !.exc = "AttributeError"]
        ELSE IF Truthy(Get(parsed_json.instances))
        THEN LET d == decode_b64_if_needed(Get(parsed_json.instances))
             IN  IF d.exc # "none"
                 THEN [nothing EXCEPT !.exc = d.exc]
                 ELSE [nothing EXCEPT !.instances = d.value]
        ELSE IF Truthy(Get(parsed_json.inputs))
        THEN [nothing EXCEPT !.response =
                 SimpleResponse(HTTP_NOT_IMPLEMENTED, None,
                                "Column format 'inputs' not implemented")]
        ELSE nothing

\* The try block with the inputs branch recording nothing.
TryBodyNoInputs(request) ==
    LET parsed_json == request.data
        nothing == [exc |-> "none", instances |-> None, response |-> None]
    IN  IF parsed_json.exc # "none"
        THEN [nothing EXCEPT !.exc = parsed_json.exc]
        ELSE IF ~parsed_json.dict
        THEN [nothing EXCEPT !.exc = "AttributeError"]
        ELSE IF Get(parsed_json.instances) # None
        THEN LET d == decode_b64_if_needed(Get(parsed_json.instances))
             IN  IF d.exc # "none"
                 THEN [nothing EXCEPT !.exc = d.exc]
                 ELSE [nothing EXCEPT !.instances = d.value]
        ELSE nothing

\* The statements of the try block after the flag is set: the exception they
\* end in (or "none"), the instances they record (or None) and the response
\* they record (or None).
TryBody(request) ==
    LET parsed_json == request.data
        nothing == [exc |-> "none", instances |-> None, response |-> None]
    IN  IF parsed_json.exc # "none"
        THEN [nothing EXCEPT !.exc = parsed_json.exc]
        ELSE IF ~parsed_json.dict
        THEN [nothing EXCEPT !.exc = "AttributeError"]
        ELSE IF Get(parsed_json.instances) # None
        THEN LET d == decode_b64_if_needed(Get(parsed_json.instances))
             IN  IF d.exc # "none"
                 THEN [nothing EXCEPT !.exc = d.exc]
                 ELSE [nothing EXCEPT !.instances = d.value]
        ELSE IF Truthy(Get(parsed_json.inputs))
        THEN [nothing EXCEPT !.response =
                 SimpleResponse(HTTP_NOT_IMPLEMENTED, None,
                                "Column format 'inputs' not implemented")]
        ELSE nothing

\* Only the parse errors are caught; anything else leaves the call.
ExceptHandlerParseOnly(exc) ==
    IF exc \in {"JSONDecodeError", "UnicodeDecodeError"} THEN "pass" ELSE "raise"

\* The except clauses: "pass" for a parse error, "500" for any other exception.
ExceptHandler(exc) ==
    IF exc \in {"JSONDecodeError", "UnicodeDecodeError"} THEN "pass" ELSE "500"

\* A store that always lands in the first slot.
StoreAtFirst(list, i, v) == [list EXCEPT ![1] = v]

\* list[i] = v
StoreAt(list, i, v) == [list EXCEPT ![i] = v]

\* A list one slot short.
RepeatShort(v, n) == [k \in 1..(n - 1) |-> v]

\* [v] * n
Repeat(v, n) == [k \in 1..n |-> v]

\* ------------------------------------------------ slice-tracking merger
\* The elements one request adds to the flat sequence: nothing when it is
\* absent, each instance when its flag is true, the whole list as one element
\* when its flag is false.
Contribution(r, flag) ==
    IF r = None THEN << >>
    ELSE IF flag THEN r.xs
    ELSE <<r>>

RECURSIVE FlatUpTo(_, _, _)
FlatUpTo(lst, flags, n) ==
    IF n = 0 THEN << >>
    ELSE FlatUpTo(lst, flags, n - 1) \o Contribution(lst[n], flags[n])

\* A range that forgets the running offset.
SliceRangeFromZero(lst, flags, i) ==
    [start |-> 0, end |-> Len(Contribution(lst[i], flags[i]))]

\* SliceRange of request i: [start, end) in the flat sequence.
SliceRange(lst, flags, i) ==
    LET start == Len(FlatUpTo(lst, flags, i - 1))
    IN  [start |-> start, end |-> start + Len(Contribution(lst[i], flags[i]))]

concat_list(lst, flags) ==
    [datas |-> FlatUpTo(lst, flags, Len(lst)),
     slices |-> [i \in 1..Len(lst) |-> SliceRange(lst, flags, i)]]

\* ---------------------------------------------------------- tf.constant
\* Shape and element type of a nested value; ok is FALSE when the value is
\* ragged, mixes element types or holds something that is no tensor element.
RECURSIVE Shape(_)
Shape(v) ==
    CASE v.t = "num" -> [ok |-> TRUE, dims |-> << >>, dtype |-> "num"]
      [] v.t = "bytes" -> [ok |-> TRUE, dims |-> << >>, dtype |-> "bytes"]
      [] v.t = "list" ->
           IF Len(v.xs) = 0
           THEN [ok |-> TRUE, dims |-> <<0>>, dtype |-> "empty"]
           ELSE LET first == Shape(v.xs[1])
                IN  IF \A k \in 1..Len(v.xs) : Shape(v.xs[k]) = first /\ first.ok
                    THEN [ok |-> TRUE, dims |-> <<Len(v.xs)>> \o first.dims,
                          dtype |-> first.dtype]
                    ELSE [ok |-> FALSE, dims |-> << >>, dtype |-> "none"]
      [] OTHER -> [ok |-> FALSE, dims |-> << >>, dtype |-> "none"]

\* tf.constant(merged_instances): a tensor, or ValueError.
tf_constant(datas) ==
    LET s == Shape(List(datas))
    IN  IF s.ok
        THEN [exc |-> "none", tensor |-> [shape |-> s.dims, values |-> datas]]
        ELSE [exc |-> "ValueError", tensor |-> None]

\* --------------------------------------------------- result demultiplexer
\* Length of the flat sequence the slices were recorded for.
FlatLength(slices_) ==
    IF Len(slices_) = 0 THEN 0 ELSE slices_[Len(slices_)].end

\* result[start:end]
Slice(result, range) ==
    [k \in 1..(range.end - range.start) |-> result[range.start + k]]

\* The output formatter's response for one slice of the result.
Format(slice) == [formatted |-> slice]

\* Position i: the fallback recorded for i, else the formatted slice of i.
Demultiplexed(result, slices_, fallbacks, i) ==
    IF fallbacks[i] # None THEN fallbacks[i] ELSE Format(Slice(result, slices_[i]))

\* The demultiplexer without its check of the result's outer length.
to_batch_response_unchecked(result, slices_, fallbacks) ==
    [exc |-> "none",
     responses |-> [i \in 1..Len(slices_) |->
                       Demultiplexed(result, slices_, fallbacks, i)]]

to_batch_response(result, slices_, fallbacks) ==
    IF Len(result) # FlatLength(slices_)
    THEN [exc |-> "ShapeMismatch", responses |-> << >>]
    ELSE [exc |-> "none",
          responses |-> [i \in 1..Len(slices_) |->
                            Demultiplexed(result, slices_, fallbacks, i)]]

\* ------------------------------------------------ downstream computation
\* func is opaque: it raises, or returns rows numbered from 1; the number of
\* rows is that of the tensor, one less, or one more.
FuncOutcomes == {"rows", "short", "long", "raise"}

FuncRows(n, out) ==
    CASE out = "rows" -> [k \in 1..n |-> k]
      [] out = "short" -> [k \in 1..(n - 1) |-> k]
      [] out = "long" -> [k \in 1..(n + 1) |-> k]
      [] OTHER -> << >>

\* ------------------------------------------------------------------ state
VARIABLES
    requests,          \* the batch handed to handle_batch_request
    is_batch_input,    \* self.config["is_batch_input"]
    pc,                \* phase of the call
    i,                 \* next request of the decode loop (from 1)
    instances_list,
    responses,         \* the fallbacks list
    batch_flags,
    outcome,           \* per request, how its decode step ended
    merged_instances,
    slices,
    parsed_tensor,
    merged_result,
    func_calls,        \* invocations of func in this call
    func_arg,          \* what func was invoked with
    returned,          \* the list the call returns
    raised,            \* the exception the call ends in, or "none"
    channel,           \* the handler called: batch, http, cli or lambda
    content_type,      \* declared content type of a single request
    body_parsed,       \* a single request's body has reached decoding and parsing
    to_response_calls, \* calls of to_response / to_cli / to_aws_lambda_event
    dec_in,            \* a value handed to decode_b64_if_needed
    dec_out,           \* what the decoder made of dec_in
    dec_again          \* what the decoder made of dec_out

\* State of the single-request handlers only.
others == <<channel, content_type, body_parsed, to_response_calls>>

\* State of the decoder on its own.
decoderVars == <<dec_in, dec_out, dec_again>>

vars == <<requests, is_batch_input, pc, i, instances_list, responses, batch_flags,
          outcome, merged_instances, slices, parsed_tensor, merged_result,
          func_calls, func_arg, returned, raised, others, decoderVars>>

Batches == UNION { [1..n -> Requests] : n \in 0..MaxRequests }

Init ==
    /\ requests \in Batches
    /\ is_batch_input \in BOOLEAN
    /\ pc = "Received"
    /\ i = 1
    /\ instances_list = << >>
    /\ responses = << >>
    /\ batch_flags = << >>
    /\ outcome = << >>
    /\ merged_instances = << >>
    /\ slices = << >>
    /\ parsed_tensor = None
    /\ merged_result = << >>
    /\ func_calls = 0
    /\ func_arg = None
    /\ returned = << >>
    /\ raised = "none"
    /\ channel = "batch"
    /\ content_type = "absent"
    /\ body_parsed = FALSE
    /\ to_response_calls = 0
    /\ dec_in = None
    /\ dec_out = None
    /\ dec_again = None

\* How the decode step of one request ended.
OutcomeOf(t, handler) ==
    IF t.exc # "none" THEN (IF handler = "pass" THEN "parse" ELSE "exception")
    ELSE IF t.response # None THEN "inputs"
    ELSE IF t.instances # None THEN "good"
    ELSE "nothing"

\* bad_resp and the three lists, one slot per request.
Start ==
    /\ pc = "Received"
    /\ pc' = "Decoding"
    /\ instances_list' = Repeat(None, Len(requests))
    /\ responses' = Repeat(bad_resp, Len(requests))
    /\ batch_flags' = Repeat(None, Len(requests))
    /\ outcome' = [k \in 1..Len(requests) |-> "pending"]
    /\ UNCHANGED others
    /\ UNCHANGED decoderVars
    /\ UNCHANGED <<requests, is_batch_input, i, merged_instances, slices,
                   parsed_tensor, merged_result, func_calls, func_arg, returned, raised>>

\* One pass of the loop body for request k: try block, then the except clause
\* it ends in. lists holds the three lists before the pass; the result holds
\* them after it, with how the pass ended.
DecodePass(lists, request, k, cfg) ==
    LET t == TryBody(request)
        handler == IF t.exc = "none" THEN "none" ELSE ExceptHandler(t.exc)
        stored == IF t.response # None
                  THEN StoreAt(lists.responses, k, t.response)
                  ELSE lists.responses
    IN  [batch_flags |-> StoreAt(lists.batch_flags, k, BatchFlag(request, cfg)),
         instances_list |-> IF t.instances # None
                            THEN StoreAt(lists.instances_list, k, t.instances)
                            ELSE lists.instances_list,
         responses |-> IF handler = "500"
                       THEN StoreAt(stored, k,
                                SimpleResponse(HTTP_INTERNAL, None,
                                               "Internal Server Error"))
                       ELSE stored,
         outcome |-> OutcomeOf(t, handler),
         handler |-> handler,
         exc |-> t.exc]

\* The pass for request k on the lists of the call.
DecodeStep(k) ==
    LET d == DecodePass([instances_list |-> instances_list, responses |-> responses,
                         batch_flags |-> batch_flags],
                        requests[k], k, is_batch_input)
    IN  /\ batch_flags' = d.batch_flags
        /\ instances_list' = d.instances_list
        /\ responses' = d.responses
        /\ outcome' = [outcome EXCEPT ![k] = d.outcome]
        /\ IF d.handler = "raise"
           THEN pc' = "Raised" /\ raised' = d.exc /\ i' = i
           ELSE pc' = pc /\ raised' = raised /\ i' = i + 1

\* for i, request in enumerate(requests): the pass for the next request.
DecodeRequest ==
    /\ pc = "Decoding"
    /\ i <= Len(requests)
    /\ DecodeStep(i)
    /\ UNCHANGED others
    /\ UNCHANGED decoderVars
    /\ UNCHANGED <<requests, is_batch_input, merged_instances, slices, parsed_tensor,
                   merged_result, func_calls, func_arg, returned>>

\* The call made without the flags: every request counts as batched.
MergeCallNoFlags(lst, flags) == concat_list(lst, Repeat(TRUE, Len(lst)))

\* concat_list(instances_list, batch_flags=batch_flags)
MergeCall(lst, flags) == concat_list(lst, flags)

\* concat_list, once the loop has seen every request.
Merge ==
    /\ pc = "Decoding"
    /\ i > Len(requests)
    /\ LET m == MergeCall(instances_list, batch_flags)
       IN  merged_instances' = m.datas /\ slices' = m.slices
    /\ pc' = "Merged"
    /\ UNCHANGED others
    /\ UNCHANGED decoderVars
    /\ UNCHANGED <<requests, is_batch_input, i, instances_list, responses, batch_flags,
                   outcome, parsed_tensor, merged_result, func_calls, func_arg,
                   returned, raised>>

\* func invoked once for each element of the flat sequence.
BatchInvokerPerElement(datas) ==
    LET c == tf_constant(datas)
    IN  IF c.exc # "none"
        THEN [exc |-> c.exc, tensor |-> None, calls |-> 0]
        ELSE [exc |-> "none", tensor |-> c.tensor, calls |-> Len(datas)]

\* tf.constant(merged_instances), then func(parsed_tensor): the exception of
\* the construction (or "none"), the tensor, and how often func is invoked.
BatchInvoker(datas) ==
    LET c == tf_constant(datas)
    IN  IF c.exc # "none"
        THEN [exc |-> c.exc, tensor |-> None, calls |-> 0]
        ELSE [exc |-> "none", tensor |-> c.tensor, calls |-> 1]

\* A handler around the invocation that swallows the exception and goes on.
SwallowBatchFailure(exc) == "Invoked"

\* Lines 148-154 stand in no try block: an exception of tf.constant, func or
\* to_batch_response leaves handle_batch_request.
Propagate(exc) == "Raised"

Invoke ==
    /\ pc = "Merged"
    /\ LET b == BatchInvoker(merged_instances)
       IN  IF b.exc # "none"
           THEN /\ pc' = Propagate(b.exc)
                /\ raised' = b.exc
                /\ UNCHANGED <<parsed_tensor, merged_result, func_calls, func_arg>>
           ELSE \E out \in FuncOutcomes :
                  /\ out = "short" => Len(merged_instances) > 0
                  /\ parsed_tensor' = b.tensor
                  /\ func_calls' = func_calls + b.calls
                  /\ func_arg' = b.tensor
                  /\ merged_result' = FuncRows(Len(merged_instances), out)
                  /\ IF out = "raise"
                     THEN pc' = Propagate("FuncError") /\ raised' = "FuncError"
                     ELSE pc' = "Invoked" /\ raised' = raised
    /\ UNCHANGED others
    /\ UNCHANGED decoderVars
    /\ UNCHANGED <<requests, is_batch_input, i, instances_list, responses, batch_flags,
                   outcome, merged_instances, slices, returned>>

\* output_adapter.to_batch_response
Demultiplex ==
    /\ pc = "Invoked"
    /\ LET d == to_batch_response(merged_result, slices, responses)
       IN  IF d.exc # "none"
           THEN pc' = Propagate(d.exc) /\ raised' = d.exc /\ returned' = returned
           ELSE pc' = "Demultiplexed" /\ raised' = raised /\ returned' = d.responses
    /\ UNCHANGED others
    /\ UNCHANGED decoderVars
    /\ UNCHANGED <<requests, is_batch_input, i, instances_list, responses, batch_flags,
                   outcome, merged_instances, slices, parsed_tensor, merged_result,
                   func_calls, func_arg>>

\* return
Respond ==
    /\ pc = "Demultiplexed"
    /\ pc' = "Responded"
    /\ UNCHANGED others
    /\ UNCHANGED decoderVars
    /\ UNCHANGED <<requests, is_batch_input, i, instances_list, responses, batch_flags,
                   outcome, merged_instances, slices, parsed_tensor, merged_result,
                   func_calls, func_arg, returned, raised>>

Next == Start \/ DecodeRequest \/ Merge \/ Invoke \/ Demultiplex \/ Respond

Spec == Init /\ [][Next]_vars

\* ------------------------------------------- decode steps run side by side
\* The passes of the loop handed to workers: each request's pass is started
\* and completed on its own, in any order; i counts the completed passes.
ParBodies ==
    { Body("JSONDecodeError", FALSE, Absent, Absent),
      Body("none", TRUE, None, Absent),
      Body("none", TRUE, List(<<Num(1), Num(2)>>), Absent),
      Body("none", TRUE, List(<<List(<<Num(1), Num(2)>>), List(<<Num(3), Num(4)>>)>>), Absent),
      Body("none", TRUE, List(<<B64("bad")>>), Absent),
      Body("none", TRUE, Absent, Dict(1)) }

ParBatches ==
    UNION { [1..n -> { SimpleRequest(d, h) : d \in ParBodies, h \in Headers }] :
              n \in 0..MaxRequests }

ParInit == Init /\ requests \in ParBatches

BeginDecode ==
    /\ pc = "Decoding"
    /\ \E k \in 1..Len(requests) :
          /\ outcome[k] = "pending"
          /\ outcome' = [outcome EXCEPT ![k] = "running"]
    /\ UNCHANGED others
    /\ UNCHANGED decoderVars
    /\ UNCHANGED <<requests, is_batch_input, pc, i, instances_list, responses,
                   batch_flags, merged_instances, slices, parsed_tensor,
                   merged_result, func_calls, func_arg, returned, raised>>

CompleteDecode ==
    /\ pc = "Decoding"
    /\ \E k \in 1..Len(requests) :
          /\ outcome[k] = "running"
          /\ DecodeStep(k)
    /\ UNCHANGED others
    /\ UNCHANGED decoderVars
    /\ UNCHANGED <<requests, is_batch_input, merged_instances, slices, parsed_tensor,
                   merged_result, func_calls, func_arg, returned>>

ParNext ==
    Start \/ BeginDecode \/ CompleteDecode \/ Merge \/ Invoke \/ Demultiplex \/ Respond

ParSpec == ParInit /\ [][ParNext]_vars

\* ------------------------------------------------ single-request handlers
\* handle_request, handle_cli and handle_aws_lambda_event: one request, no
\* merger and no demultiplexer.
Channels == {"http", "cli", "lambda"}

ContentTypes == {"application/json", "text/plain", "absent"}

\* The bodies a channel can hand over: only handle_request decodes bytes, so
\* only there can the text decoding fail.
SingleBodies(ch) ==
    IF ch = "http" THEN Bodies
    ELSE {b \in Bodies : b.exc # "UnicodeDecodeError"}

\* The content type test of the handler: the exception it ends in, or "none".
\* handle_aws_lambda_event formats its message with headers["Content-Type"],
\* which raises KeyError when the header is missing.
ContentTypeCheck(ch, ct) ==
    CASE ch = "http" ->
           IF ct = "application/json" THEN "none" ELSE "BadInput"
      [] ch = "lambda" ->
           IF ct = "application/json" THEN "none"
           ELSE IF ct = "absent" THEN "KeyError"
           ELSE "BentoMLException"
      [] OTHER -> "none"

\* _handle_raw_str with parsed_tensor preset to None before the tests.
HandleRawStrDefaultNone(body) ==
    IF body.exc # "none" THEN [exc |-> body.exc, tensor |-> None]
    ELSE IF ~body.dict THEN [exc |-> "AttributeError", tensor |-> None]
    ELSE IF Get(body.instances) # None
    THEN LET d == decode_b64_if_needed(Get(body.instances))
         IN  IF d.exc # "none"
             THEN [exc |-> d.exc, tensor |-> None]
             ELSE tf_constant(d.value.xs)
    ELSE IF Truthy(Get(body.inputs))
    THEN [exc |-> "NotImplementedError", tensor |-> None]
    ELSE [exc |-> "none", tensor |-> None]

\* _handle_raw_str up to the call of func: the exception it ends in (or
\* "none") and the tensor func is called with. With neither instances nor a
\* true inputs value parsed_tensor is unbound at the return statement.
HandleRawStr(body) ==
    IF body.exc # "none" THEN [exc |-> body.exc, tensor |-> None]
    ELSE IF ~body.dict THEN [exc |-> "AttributeError", tensor |-> None]
    ELSE IF Get(body.instances) # None
    THEN LET d == decode_b64_if_needed(Get(body.instances))
         IN  IF d.exc # "none"
             THEN [exc |-> d.exc, tensor |-> None]
             ELSE tf_constant(d.value.xs)
    ELSE IF Truthy(Get(body.inputs))
    THEN [exc |-> "NotImplementedError", tensor |-> None]
    ELSE [exc |-> "UnboundLocalError", tensor |-> None]

\* Outer length of a tensor (0 for None).
OuterLength(tensor) ==
    IF tensor = None THEN 0 ELSE Len(tensor.values)

SingleInit ==
    /\ channel \in Channels
    /\ content_type \in (IF channel = "cli" THEN {"absent"} ELSE ContentTypes)
    /\ requests \in { <<SimpleRequest(b, "absent")>> : b \in SingleBodies(channel) }
    /\ is_batch_input = TRUE
    /\ pc = "Received"
    /\ i = 1
    /\ instances_list = << >>
    /\ responses = << >>
    /\ batch_flags = << >>
    /\ outcome = << >>
    /\ merged_instances = << >>
    /\ slices = << >>
    /\ parsed_tensor = None
    /\ merged_result = << >>
    /\ func_calls = 0
    /\ func_arg = None
    /\ returned = << >>
    /\ raised = "none"
    /\ body_parsed = FALSE
    /\ to_response_calls = 0
    /\ dec_in = None
    /\ dec_out = None
    /\ dec_again = None

\* The content type test (handle_request, handle_aws_lambda_event) or the
\* argument parsing (handle_cli).
SingleValidate ==
    /\ pc = "Received"
    /\ LET e == ContentTypeCheck(channel, content_type)
       IN  IF e # "none"
           THEN pc' = "Raised" /\ raised' = e
           ELSE pc' = "Validated" /\ raised' = raised
    /\ UNCHANGED decoderVars
    /\ UNCHANGED <<requests, is_batch_input, i, instances_list, responses, batch_flags,
                   outcome, merged_instances, slices, parsed_tensor, merged_result,
                   func_calls, func_arg, returned, others>>

\* request.data.decode, then _handle_raw_str: parse, decode, tf.constant, func.
SingleHandleRawStr ==
    /\ pc = "Validated"
    /\ body_parsed' = TRUE
    /\ LET h == HandleRawStr(requests[1].data)
       IN  IF h.exc # "none"
           THEN /\ pc' = "Raised"
                /\ raised' = h.exc
                /\ UNCHANGED <<parsed_tensor, merged_result, func_calls, func_arg>>
           ELSE \E out \in FuncOutcomes :
                  /\ out = "short" => OuterLength(h.tensor) > 0
                  /\ parsed_tensor' = h.tensor
                  /\ func_calls' = func_calls + 1
                  /\ func_arg' = h.tensor
                  /\ merged_result' = FuncRows(OuterLength(h.tensor), out)
                  /\ IF out = "raise"
                     THEN pc' = "Raised" /\ raised' = "FuncError"
                     ELSE pc' = "Invoked" /\ raised' = raised
    /\ UNCHANGED decoderVars
    /\ UNCHANGED <<requests, is_batch_input, i, instances_list, responses, batch_flags,
                   outcome, merged_instances, slices, returned, channel, content_type,
                   to_response_calls>>

\* output_adapter.to_response / to_cli / to_aws_lambda_event, and return.
SingleFormat ==
    /\ pc = "Invoked"
    /\ to_response_calls' = to_response_calls + 1
    /\ returned' = <<Format(merged_result)>>
    /\ pc' = "Responded"
    /\ UNCHANGED decoderVars
    /\ UNCHANGED <<requests, is_batch_input, i, instances_list, responses, batch_flags,
                   outcome, merged_instances, slices, parsed_tensor, merged_result,
                   func_calls, func_arg, raised, channel, content_type, body_parsed>>

SingleNext == SingleValidate \/ SingleHandleRawStr \/ SingleFormat

SingleSpec == SingleInit /\ [][SingleNext]_vars

\* ------------------------------------------------ the decoder on its own
\* decode_b64_if_needed applied to a value, and again to its own output.
DecoderScalars == {Num(1), None, B64("ok")}

MapKeys == {"a", "b"}

\* The sequences and the mappings over a set of values.
Lists(V) == { List(xs) : xs \in UNION { [1..n -> V] : n \in 0..MaxLen } }

Maps(V) == { Map(kv) : kv \in UNION { [K -> V] : K \in SUBSET MapKeys } }

DecoderLevel1 == DecoderScalars \cup Lists(DecoderScalars) \cup Maps(DecoderScalars)

\* Values nested two deep.
DecoderInputs == DecoderLevel1 \cup Lists(DecoderLevel1) \cup Maps(DecoderLevel1)

DecoderInit ==
    /\ dec_in \in DecoderInputs
    /\ dec_out = None
    /\ dec_again = None
    /\ pc = "Received"
    /\ requests = << >>
    /\ is_batch_input = TRUE
    /\ i = 1
    /\ instances_list = << >>
    /\ responses = << >>
    /\ batch_flags = << >>
    /\ outcome = << >>
    /\ merged_instances = << >>
    /\ slices = << >>
    /\ parsed_tensor = None
    /\ merged_result = << >>
    /\ func_calls = 0
    /\ func_arg = None
    /\ returned = << >>
    /\ raised = "none"
    /\ channel = "decoder"
    /\ content_type = "absent"
    /\ body_parsed = FALSE
    /\ to_response_calls = 0

\* decode_b64_if_needed(dec_in)
Decode ==
    /\ pc = "Received"
    /\ dec_out' = decode_b64_if_needed(dec_in).value
    /\ pc' = "Decoded"
    /\ UNCHANGED <<requests, is_batch_input, i, instances_list, responses, batch_flags,
                   outcome, merged_instances, slices, parsed_tensor, merged_result,
                   func_calls, func_arg, returned, raised, others, dec_in, dec_again>>

\* decode_b64_if_needed(dec_out)
DecodeAgain ==
    /\ pc = "Decoded"
    /\ dec_again' = decode_b64_if_needed(dec_out).value
    /\ pc' = "Redecoded"
    /\ UNCHANGED <<requests, is_batch_input, i, instances_list, responses, batch_flags,
                   outcome, merged_instances, slices, parsed_tensor, merged_result,
                   func_calls, func_arg, returned, raised, others, dec_in, dec_out>>

DecoderNext == Decode \/ DecodeAgain

DecoderSpec == DecoderInit /\ [][DecoderNext]_vars

\* ------------------------------------------------------------ vocabulary
N == Len(requests)

\* The decode loop is over.
Decoded == pc \notin {"Received", "Decoding"}

IsFallback(r) == "status" \in DOMAIN r

StatusOf(r) == IF IsFallback(r) THEN r.status ELSE 0

\* r is the formatted slice of the combined result that request k owns.
IsSliceOf(r, k) == r = Format(Slice(merged_result, slices[k]))

\* Request k failed in its decode step.
Failed(k) == outcome[k] \in {"parse", "inputs", "exception"}

\* --------------------------------------------------------------- claims

\* C1: the list handle_batch_request returns has one entry per request, and
\* entry k is the response of request k: the 400, 501 or 500 fallback of the
\* failure request k ended in, and otherwise the default fallback or the
\* slice of the combined result that request k owns.
C1_OrderPreserved ==
    pc = "Responded" =>
        /\ Len(returned) = N
        /\ \A k \in 1..N :
              /\ k \in DOMAIN returned
              /\ outcome[k] = "parse" => StatusOf(returned[k]) = HTTP_BAD
              /\ outcome[k] = "inputs" => StatusOf(returned[k]) = HTTP_NOT_IMPLEMENTED
              /\ outcome[k] = "exception" => StatusOf(returned[k]) = HTTP_INTERNAL
              /\ ~Failed(k) => returned[k] = bad_resp \/ IsSliceOf(returned[k], k)

\* C1 witness: a returned batch of two whose first request was good and whose
\* second failed with a 501.
C1_Witness ==
    /\ pc = "Responded"
    /\ N = 2
    /\ outcome[1] = "good"
    /\ outcome[2] = "inputs"

C3_AllBadNeverInvokes ==
    (N > 0 /\ Decoded /\ \A k \in 1..N : outcome[k] # "good") =>
        /\ func_calls = 0
        /\ pc = "Responded" =>
              Len(returned) = N /\ \A k \in 1..N : IsFallback(returned[k])

\* C4 (as claimed): once the batch call has passed its invocation step with a
\* flat sequence of at least one element, func has been invoked exactly once.
C4_InvokedExactlyOnce ==
    (pc \in {"Invoked", "Demultiplexed", "Responded", "Raised"}
        /\ Len(merged_instances) > 0) => func_calls = 1

\* C4 (amended): func is invoked at most once per call; never before every
\* request is decoded and the flat sequence merged; always before the result
\* is demultiplexed; with the one tensor built from the whole flat sequence;
\* and exactly once when the flat sequence has at least one element and
\* tf.constant can build a tensor from it (not at all when it raises).
C4_InvokedOnceWhenConstructed ==
    /\ func_calls <= 1
    /\ pc \in {"Received", "Decoding", "Merged"} => func_calls = 0
    /\ pc \in {"Invoked", "Demultiplexed", "Responded"} => func_calls = 1
    /\ func_calls = 1 =>
          /\ \A k \in 1..N : outcome[k] # "pending"
          /\ func_arg = parsed_tensor
          /\ func_arg.values = merged_instances
          /\ merged_instances = concat_list(instances_list, batch_flags).datas
    /\ (pc = "Raised" /\ Len(merged_instances) > 0) =>
          func_calls = (IF raised = "ValueError" THEN 0 ELSE 1)

\* C4 witness: func has been invoked for a flat sequence of three elements
\* that two requests contributed.
C4_Witness ==
    /\ pc = "Invoked"
    /\ func_calls = 1
    /\ N = 2
    /\ Len(merged_instances) = 3
    /\ outcome[1] = "good"
    /\ outcome[2] = "good"

\* C5 (as claimed): in a returned batch of parse failures and well-formed
\* requests, each parse failure has the 400 fallback at its position, each
\* well-formed request has the formatted slice it owns at its position, and
\* there are as many fallbacks as parse failures.
C5_FallbackIsolation ==
    (pc = "Responded" /\ \A k \in 1..N : outcome[k] \in {"parse", "good"}) =>
        /\ \A k \in 1..N :
              /\ outcome[k] = "parse" => returned[k] = bad_resp
              /\ outcome[k] = "good" => IsSliceOf(returned[k], k)
        /\ Cardinality({k \in 1..N : IsFallback(returned[k])})
             = Cardinality({k \in 1..N : outcome[k] = "parse"})

\* Exceptions that end the whole batch call, none of them raised by the
\* decode step of one request.
BatchLevel == {"none", "ValueError", "FuncError", "ShapeMismatch"}

\* C6: a request whose decode step raises anything but a parse error has the
\* 500 fallback in its slot and no instances; the exception never leaves
\* handle_batch_request; the loop still decodes every other request, and a
\* returned list carries the 500 at that request's position.
C6_ExceptionIsolated ==
    /\ raised \in BatchLevel
    /\ \A k \in 1..Len(outcome) :
          outcome[k] = "exception" =>
              /\ StatusOf(responses[k]) = HTTP_INTERNAL
              /\ instances_list[k] = None
    /\ Decoded => (i = N + 1 /\ \A k \in 1..N : outcome[k] # "pending")
    /\ pc = "Responded" =>
          \A k \in 1..N :
              outcome[k] = "exception" => StatusOf(returned[k]) = HTTP_INTERNAL

\* C6 witness: a returned batch whose first request raised in its decode
\* step and whose second request was decoded and merged after it.
C6_Witness ==
    /\ pc = "Responded"
    /\ N = 2
    /\ outcome[1] = "exception"
    /\ outcome[2] = "good"
    /\ Len(merged_instances) > 0

\* The payload of the request parses to a mapping that has an inputs key.
UsesInputs(request) ==
    /\ request.data.exc = "none"
    /\ request.data.dict
    /\ request.data.inputs # Absent

\* The payload parses to a mapping with no instances (or null) and an inputs
\* value that is not empty.
OnlyInputs(request) ==
    /\ UsesInputs(request)
    /\ Get(request.data.instances) = None
    /\ Truthy(Get(request.data.inputs))

\* C7 (as claimed): every request whose payload has an inputs field has the
\* 501 fallback recorded and no instances once the loop is over.
C7_InputsAlways501 ==
    Decoded =>
        \A k \in 1..N :
            UsesInputs(requests[k]) =>
                /\ StatusOf(responses[k]) = HTTP_NOT_IMPLEMENTED
                /\ instances_list[k] = None

\* C7 (amended): a request whose payload has no instances (absent or null)
\* and a non-empty inputs value has the 501 fallback recorded, a status other
\* than the 400 and 500 ones, records no instances, owns an empty range, gets
\* the 501 at its position of a returned list, and never ends the call.
C7_OnlyInputs501 ==
    /\ raised \in BatchLevel
    /\ HTTP_NOT_IMPLEMENTED \notin {HTTP_BAD, HTTP_INTERNAL}
    /\ \A k \in 1..Len(outcome) :
          (OnlyInputs(requests[k]) /\ outcome[k] # "pending") =>
              /\ StatusOf(responses[k]) = HTTP_NOT_IMPLEMENTED
              /\ instances_list[k] = None
              /\ k \in DOMAIN slices => slices[k].start = slices[k].end
              /\ pc = "Responded" => StatusOf(returned[k]) = HTTP_NOT_IMPLEMENTED

\* C7 witness: a returned batch whose first request used inputs only and
\* whose second request contributed instances.
C7_Witness ==
    /\ pc = "Responded"
    /\ N = 2
    /\ OnlyInputs(requests[1])
    /\ outcome[2] = "good"
    /\ Len(merged_instances) > 0

\* Request k recorded instances.
Present(k) == instances_list[k] # None

\* C8: the SliceRanges the merger records, one per request and in request
\* order, start at 0, each begin where the one before ends, and end at the
\* length of the flat sequence; a request without instances has an empty
\* range; every index of the flat sequence lies in the range of exactly one
\* request, and that request recorded instances.
C8_SliceCoverage ==
    pc \in {"Merged", "Invoked", "Demultiplexed", "Responded"} =>
        /\ Len(slices) = N
        /\ \A k \in 1..N :
              /\ slices[k].start <= slices[k].end
              /\ slices[k].start = (IF k = 1 THEN 0 ELSE slices[k - 1].end)
              /\ ~Present(k) => slices[k].start = slices[k].end
        /\ FlatLength(slices) = Len(merged_instances)
        /\ \A p \in 0..(Len(merged_instances) - 1) :
              /\ Cardinality({k \in 1..N :
                     slices[k].start <= p /\ p < slices[k].end}) = 1
              /\ \E k \in 1..N :
                     Present(k) /\ slices[k].start <= p /\ p < slices[k].end

\* C8 witness: merged ranges of an absent request followed by a request that
\* owns two elements.
C8_Witness ==
    /\ pc = "Merged"
    /\ N = 2
    /\ ~Present(1)
    /\ Present(2)
    /\ slices[2].end - slices[2].start = 2

\* C9: after the merge a request with BatchFlag true and k instances owns k
\* elements of the flat sequence, its instances in their order; a request
\* with BatchFlag false owns one element, its whole instance list.
C9_BatchFlagSemantics ==
    pc \in {"Merged", "Invoked", "Demultiplexed", "Responded"} =>
        \A k \in 1..N :
            Present(k) =>
                LET r == slices[k]
                    own == [j \in 1..(r.end - r.start) |-> merged_instances[r.start + j]]
                IN  IF batch_flags[k]
                    THEN own = instances_list[k].xs
                    ELSE own = <<instances_list[k]>>

\* C9 witness: the same two-entry instance list merged by one request with
\* BatchFlag false and by another with BatchFlag true.
C9_Witness ==
    /\ pc = "Merged"
    /\ N = 2
    /\ Present(1) /\ Present(2)
    /\ instances_list[1] = instances_list[2]
    /\ Len(instances_list[1].xs) = 2
    /\ ~batch_flags[1] /\ batch_flags[2]
    /\ Len(merged_instances) = 3

\* C10: a request that failed in its decode step (parse error, inputs format
\* or exception) never has instances recorded, so it owns an empty range of
\* the flat sequence; a request with recorded instances has none of the
\* failure outcomes.
C10_BadContributesNothing ==
    \A k \in 1..Len(outcome) :
        /\ Failed(k) =>
              /\ ~Present(k)
              /\ k \in DOMAIN slices => slices[k].start = slices[k].end
        /\ Present(k) => outcome[k] = "good"

\* C10 witness: the flat sequence is merged from a batch whose first request
\* raised in its decode step and whose second contributed two elements.
C10_Witness ==
    /\ pc = "Merged"
    /\ N = 2
    /\ outcome[1] = "exception"
    /\ outcome[2] = "good"
    /\ Len(merged_instances) = 2

\* C11: when tf.constant or func raises, the batch call ends in that
\* exception: it stays ended, no response list has been returned, the
\* demultiplexer has not run, and func was invoked once (when it was func
\* that raised) or not at all (when the construction raised), never again.
C11_BatchFailurePropagates ==
    raised \in {"ValueError", "FuncError"} =>
        /\ pc = "Raised"
        /\ returned = << >>
        /\ func_calls = (IF raised = "FuncError" THEN 1 ELSE 0)

\* C11 witness: func raised on the flat sequence of a batch of one good and
\* one failed request.
C11_Witness ==
    /\ pc = "Raised"
    /\ raised = "FuncError"
    /\ N = 2
    /\ outcome[1] = "good"
    /\ outcome[2] = "parse"
    /\ Len(merged_instances) > 0

\* C12: once func has returned a result whose outer length differs from the
\* length of the flat sequence, the demultiplexer ends the call in a shape
\* mismatch error: the call is never past the demultiplexer with such a
\* result and no response list is returned.
C12_ShapeMismatchFatal ==
    (func_calls = 1 /\ raised # "FuncError"
        /\ Len(merged_result) # Len(merged_instances)) =>
        /\ pc = "Invoked" \/ (pc = "Raised" /\ raised = "ShapeMismatch")
        /\ returned = << >>

\* C12 witness: the call ended in the shape mismatch error for a result of
\* one row against a flat sequence of two elements.
C12_Witness ==
    /\ pc = "Raised"
    /\ raised = "ShapeMismatch"
    /\ Len(merged_instances) = 2
    /\ Len(merged_result) = 1
    /\ N = 2

\* The one request of a single-request call.
TheBody == requests[1].data

\* The single-request call has ended, by return or by an exception.
SingleEnded == pc \in {"Responded", "Raised"}

\* C13 (as claimed): a single request whose content type is not
\* application/json, or is missing, ends handle_request and
\* handle_aws_lambda_event at the content type test in the handler's input
\* error (BadInput, or the BentoMLException of the lambda handler), with the
\* body neither decoded nor parsed and neither func nor the formatter called.
C13_NonJsonFailsFast ==
    (channel \in {"http", "lambda"} /\ content_type # "application/json"
        /\ pc # "Received") =>
        /\ pc = "Raised"
        /\ raised \in {"BadInput", "BentoMLException"}
        /\ ~body_parsed
        /\ func_calls = 0
        /\ to_response_calls = 0

\* The payload parses to a mapping with instances that are not null.
HasInstances(body) ==
    body.exc = "none" /\ body.dict /\ Get(body.instances) # None

\* The payload parses to a mapping with an inputs key, or with neither key.
InputsOrNeither(body) ==
    /\ body.exc = "none"
    /\ body.dict
    /\ body.inputs # Absent \/ body.instances = Absent

\* C20 (as claimed): a single-request call invokes func at most once, only
\* for a parsed payload with non-null instances, and formats a result once
\* when it returns; a payload that uses inputs, or has neither field, ends
\* the call in an error with func and the formatter never called.
C20_SingleInvokesOnce ==
    /\ func_calls <= 1
    /\ func_calls = 1 => (body_parsed /\ HasInstances(TheBody))
    /\ to_response_calls = (IF pc = "Responded" THEN 1 ELSE 0)
    /\ (SingleEnded /\ InputsOrNeither(TheBody)) =>
          (pc = "Raised" /\ func_calls = 0 /\ to_response_calls = 0)

\* C20 (amended): a single-request call invokes func at most once, only for
\* a parsed payload with non-null instances that decode and build a tensor,
\* and exactly once then; the result is formatted once, when func returns;
\* a payload without non-null instances, whether it uses inputs or not, ends
\* the call in an error with func and the formatter never called.
C20_SingleInvokesOnceForInstances ==
    /\ func_calls <= 1
    /\ func_calls = 1 =>
          /\ body_parsed
          /\ HasInstances(TheBody)
          /\ func_arg = tf_constant(decode_b64_if_needed(TheBody.instances).value.xs).tensor
    /\ to_response_calls = (IF pc = "Responded" THEN 1 ELSE 0)
    /\ pc = "Responded" => (func_calls = 1 /\ returned = <<Format(merged_result)>>)
    /\ (SingleEnded /\ func_calls = 0) => pc = "Raised"
    /\ (SingleEnded /\ ~HasInstances(TheBody)) =>
          (pc = "Raised" /\ func_calls = 0 /\ to_response_calls = 0)
    /\ (SingleEnded /\ HasInstances(TheBody)
          /\ raised \notin {"BadInput", "BentoMLException", "KeyError",
                            "binascii.Error", "ValueError"}) => func_calls = 1

\* C20 witness: the command line handler returned the formatted result of
\* its one invocation of func.
C20_Witness ==
    /\ channel = "cli"
    /\ pc = "Responded"
    /\ func_calls = 1
    /\ to_response_calls = 1
    /\ HasInstances(TheBody)

\* C14: the BatchFlag of a decoded request is TRUE when its override header
\* is "true", FALSE when it is "false", and the is_batch_input default when
\* the header is absent; two requests of a batch with the same header have
\* the same flag, whatever the other headers of the batch are.
C14_BatchFlagPerRequest ==
    \A k \in 1..Len(outcome) :
        outcome[k] # "pending" =>
            /\ requests[k].header = "true" => batch_flags[k] = TRUE
            /\ requests[k].header = "false" => batch_flags[k] = FALSE
            /\ requests[k].header = "absent" => batch_flags[k] = is_batch_input
            /\ \A j \in 1..Len(outcome) :
                  (outcome[j] # "pending" /\ requests[j].header = requests[k].header)
                      => batch_flags[j] = batch_flags[k]

\* C14 witness: under the default TRUE, a batch of a request with the header
\* "false" and a request without the header is decoded.
C14_Witness ==
    /\ pc = "Merged"
    /\ N = 2
    /\ is_batch_input
    /\ requests[1].header = "false"
    /\ requests[2].header = "absent"
    /\ batch_flags = <<FALSE, TRUE>>

\* The value holds no b64 marker at any depth.
RECURSIVE MarkerFree(_)
MarkerFree(v) ==
    CASE v.t = "b64" -> FALSE
      [] v.t = "list" -> \A k \in 1..Len(v.xs) : MarkerFree(v.xs[k])
      [] v.t = "map" -> \A key \in DOMAIN v.kv : MarkerFree(v.kv[key])
      [] OTHER -> TRUE

\* C15: decode_b64_if_needed returns a value without b64 markers as it is,
\* keys, order and scalars at every depth; its output holds no marker, and
\* decoding that output again returns it unchanged.
C15_DecoderIdempotent ==
    /\ (pc # "Received" /\ MarkerFree(dec_in)) => dec_out = dec_in
    /\ pc # "Received" => MarkerFree(dec_out)
    /\ pc = "Redecoded" => dec_again = dec_out

\* C15 witness: a mapping of a sequence and a mapping, free of markers, has
\* been decoded twice.
C15_Witness ==
    /\ pc = "Redecoded"
    /\ dec_in = Map([key \in MapKeys |->
                       IF key = "a" THEN List(<<Num(1), None>>)
                       ELSE Map([k2 \in {"a"} |-> Num(1)])])
    /\ dec_again = dec_in

\* Position of a phase in Received, Decoding, Merged, Invoked, Demultiplexed,
\* Responded.
PhaseRank(p) ==
    CASE p = "Received" -> 0
      [] p = "Decoding" -> 1
      [] p = "Merged" -> 2
      [] p = "Invoked" -> 3
      [] p = "Demultiplexed" -> 4
      [] p = "Responded" -> 5
      [] OTHER -> -1

\* One step of a batch call keeps to the order of the phases, and a decode
\* step touches the slots of its own request only and leaves the call in the
\* decode loop.
PhaseStep ==
    /\ pc' # pc =>
          \/ /\ pc # "Raised"
             /\ pc' # "Raised"
             /\ PhaseRank(pc') = PhaseRank(pc) + 1
          \/ /\ pc' = "Raised"
             /\ pc \in {"Merged", "Invoked"}
    /\ pc = "Decoding" =>
          /\ pc' \in {"Decoding", "Merged"}
          /\ \A k \in 1..N :
                /\ outcome[k] # "pending" => outcome'[k] = outcome[k]
                /\ (pc' = "Decoding" /\ k # i) =>
                      /\ outcome'[k] = outcome[k]
                      /\ responses'[k] = responses[k]
                      /\ instances_list'[k] = instances_list[k]
          /\ pc' = "Decoding" => (i' = i + 1 /\ outcome'[i] # "pending")
          /\ pc' = "Merged" =>
                \A k \in 1..N :
                    /\ outcome[k] # "pending"
                    /\ outcome[k] = "good" =>
                          SubSeq(merged_instances', slices'[k].start + 1, slices'[k].end)
                            = Contribution(instances_list[k], batch_flags[k])

\* C16: a batch call goes through Received, Decoding, Merged, Invoked,
\* Demultiplexed, Responded in this order, one phase at a time and never
\* backwards, and leaves the order only by an exception raised after the
\* merge; a request that fails in its decode step keeps its outcome for good,
\* changes no slot of another request and does not end the loop, so that
\* every request is decoded before the merge and every good one is merged.
C16_PhaseOrder == [][PhaseStep]_vars

\* C16 witness: a call has answered a batch of two whose first request
\* raised in its decode step and whose second was merged and invoked.
C16_Witness ==
    /\ pc = "Responded"
    /\ N = 2
    /\ outcome[1] = "exception"
    /\ outcome[2] = "good"
    /\ func_calls = 1
    /\ Len(merged_instances) > 0

\* C17 (as claimed): the fallbacks list handed to to_batch_response has one
\* slot per request, and slot k holds a fallback response exactly when
\* request k was bad; the slot of a request that recorded instances is empty,
\* so that the demultiplexer gives it the slice it owns.
C17_FallbackOnlyWhereBad ==
    Decoded =>
        /\ Len(responses) = N
        /\ \A k \in 1..N :
              /\ Present(k) <=> responses[k] = None
              /\ ~Present(k) <=> IsFallback(responses[k])
        /\ pc \in {"Demultiplexed", "Responded"} =>
              \A k \in 1..N : Present(k) => IsSliceOf(returned[k], k)

\* The three lists after the passes for requests 1..n in arrival order.
RECURSIVE InArrivalOrder(_)
InArrivalOrder(n) ==
    IF n = 0
    THEN [instances_list |-> Repeat(None, N), responses |-> Repeat(bad_resp, N),
          batch_flags |-> Repeat(None, N)]
    ELSE LET d == DecodePass(InArrivalOrder(n - 1), requests[n], n, is_batch_input)
         IN  [instances_list |-> d.instances_list, responses |-> d.responses,
              batch_flags |-> d.batch_flags]

\* Equality of two flag slots, each None or a boolean.
SameFlag(a, b) == ToString(a) = ToString(b)

\* A step of the decode phase leaves alone the slots of every request whose
\* pass it did not complete.
WritesOwnSlots ==
    (pc = "Decoding" /\ pc' = "Decoding") =>
        \A k \in 1..N :
            (outcome'[k] = outcome[k] \/ outcome'[k] = "running") =>
                /\ instances_list'[k] = instances_list[k]
                /\ SameFlag(batch_flags'[k], batch_flags[k])
                /\ responses'[k] = responses[k]

\* Whatever the order of the passes, the call goes on with what the passes in
\* arrival order produce.
SameAsSequential ==
    Decoded =>
        LET seq == InArrivalOrder(N)
            m == concat_list(seq.instances_list, seq.batch_flags)
        IN  /\ instances_list = seq.instances_list
            /\ Len(batch_flags) = Len(seq.batch_flags)
            /\ \A k \in 1..N : SameFlag(batch_flags[k], seq.batch_flags[k])
            /\ responses = seq.responses
            /\ merged_instances = m.datas
            /\ slices = m.slices
            /\ pc \in {"Demultiplexed", "Responded"} =>
                  returned = to_batch_response(merged_result, m.slices, seq.responses).responses

\* C18: the decode pass of request k writes the slots of index k only, and
\* with the passes started and completed in any order the instance list, the
\* flag list and the fallback list, and with them the merged flat sequence,
\* the slices and the returned list, are those of the passes run one after
\* the other in arrival order.
C18_DecodeOrderIndependent == [][WritesOwnSlots]_vars /\ []SameAsSequential

\* C18 witness: the pass of the second request has completed with instances
\* while the pass of the first, with another payload, is still running.
C18_SecondBeforeFirst ==
    /\ pc = "Decoding"
    /\ N = 2
    /\ outcome[1] = "running"
    /\ outcome[2] = "good"
    /\ requests[1].data.instances # requests[2].data.instances

\* The payload of request k parses to a mapping whose instances field is
\* present and null, or present and empty.
NullInstances(k) ==
    /\ requests[k].data.exc = "none"
    /\ requests[k].data.dict
    /\ requests[k].data.instances = None

EmptyInstances(k) ==
    /\ requests[k].data.exc = "none"
    /\ requests[k].data.dict
    /\ requests[k].data.instances = List(<< >>)

\* Number of elements of the flat sequence that request k owns.
SliceLength(k) == slices[k].end - slices[k].start

\* C19 (as claimed): a request whose payload parses and whose instances field
\* is null or empty contributes no element to the flat sequence, and no
\* fallback is recorded for it.
C19_SilentlyDropped ==
    Decoded =>
        \A k \in 1..N :
            (NullInstances(k) \/ EmptyInstances(k)) =>
                /\ SliceLength(k) = 0
                /\ ~IsFallback(responses[k])

\* C19 (amended): a request with null instances records no instances and
\* contributes no element; its slot of the fallbacks list holds the 501
\* response when its inputs field is truthy and the 400 response the slot
\* started with otherwise. A request with empty instances records the empty
\* list, which contributes no element when its batch flag is true and one
\* element, the empty list, when it is false; its slot holds the 400
\* response. In both cases the returned list carries that fallback at the
\* position of the request.
C19_NullOrEmptyInstances ==
    Decoded =>
        \A k \in 1..N :
            /\ NullInstances(k) =>
                  /\ ~Present(k)
                  /\ SliceLength(k) = 0
                  /\ responses[k] =
                        IF Truthy(Get(requests[k].data.inputs))
                        THEN SimpleResponse(HTTP_NOT_IMPLEMENTED, None,
                                            "Column format 'inputs' not implemented")
                        ELSE bad_resp
            /\ EmptyInstances(k) =>
                  /\ instances_list[k] = List(<< >>)
                  /\ SliceLength(k) = (IF batch_flags[k] THEN 0 ELSE 1)
                  /\ ~batch_flags[k] =>
                        merged_instances[slices[k].end] = List(<< >>)
                  /\ responses[k] = bad_resp
            /\ ((NullInstances(k) \/ EmptyInstances(k))
                   /\ pc \in {"Demultiplexed", "Responded"}) =>
                  returned[k] = responses[k]

\* C19 witness: a call has answered a batch of a request with empty instances
\* and the batch flag off, and a request with null instances.
C19_Witness ==
    /\ pc = "Responded"
    /\ N = 2
    /\ EmptyInstances(1)
    /\ ~batch_flags[1]
    /\ NullInstances(2)
    /\ Len(merged_instances) = 1
    /\ returned = <<bad_resp, bad_resp>>

====
